---------------------------- MODULE Spec2Model ----------------------------
(***************************************************************************)
(* A model of the qcow2 reader: the header parser (src/src/header.rs),     *)
(* the feature bitmask (src/src/feature.rs), the extension framing         *)
(* (src/src/extension.rs), the integer helpers (src/src/int.rs) and the    *)
(* guest-to-physical translator with the positioned read built on it       *)
(* (src/src/read.rs, src/src/lib.rs).                                      *)
(*                                                                         *)
(* A u64 that the code treats as a bit field (a feature mask, an L1 or L2  *)
(* entry) is the set of the positions of its set bits, so that masking is  *)
(* intersection and all 64 bits are kept.  Byte counts and offsets are     *)
(* integers.                                                               *)
(***************************************************************************)
EXTENDS Integers, Sequences, FiniteSets, TLC

VARIABLES
    io,          \* the backing source: the image file, never written
    header,      \* Qcow2.header: [c: HeaderCommon, v3: HeaderV3]
    l2_cache,    \* Qcow2.l2_cache: the keys of the LRU, most recent first
    opn,         \* Qcow2::open: its position in Header::read and its result
    reader,      \* the Reader of the facade: its state and its L1 table
    call,        \* the read_at call in progress or just finished
    saved,       \* what the caller kept of earlier read_at calls
    threads      \* the read_at call of each thread that shares the facade

vars == <<io, header, l2_cache, opn, reader, call, saved, threads>>

-----------------------------------------------------------------------------
(* Bounds of the model.                                                    *)

\* How many fields of the base image an input image may differ in.
MaxDeviations == 2
\* The longest of the short buffers handed to read_at.
MaxLen == 3
\* The number of threads that share a facade.
MaxThreads == 2

-----------------------------------------------------------------------------
(* Bit fields.                                                             *)

U64Bits == 0..63

Pow2(n) == 2 ^ n

\* The bits b with lo <= b <= hi.
BitRange(lo, hi) == lo..hi

\* The value of a bit field whose set bits are all below 31.
RECURSIVE BitsValue(_)
BitsValue(bits) ==
    IF bits = {} THEN 0
    ELSE LET b == CHOOSE x \in bits : TRUE
         IN  Pow2(b) + BitsValue(bits \ {b})

\* Whether the value of the bit field is too large for a file offset of
\* the model (every file of the model is far shorter than 2^30 bytes).
Huge(bits) == \E b \in bits : b >= 30

\* entry >> x
ShiftRight(bits, x) == {b - x : b \in {c \in bits : c >= x}}

-----------------------------------------------------------------------------
(* Errors (src/src/error.rs) and results.                                  *)

Err(kind, msg) == [kind |-> kind, msg |-> msg]
NoError == [kind |-> "none", msg |-> ""]
IoError == Err("Io", "failed to fill whole buffer")

\* format!("{:#x}", n)
HexDigits == <<"0", "1", "2", "3", "4", "5", "6", "7",
               "8", "9", "a", "b", "c", "d", "e", "f">>
RECURSIVE LowerHex(_)
LowerHex(n) ==
    IF n < 16 THEN HexDigits[n + 1]
    ELSE LowerHex(n \div 16) \o HexDigits[(n % 16) + 1]
AltHex(n) == "0x" \o LowerHex(n)

-----------------------------------------------------------------------------
(* Integer helpers.                                                        *)

div_rem(a, b) == <<a \div b, a % b>>

is_multiple_of(a, b) == a % b = 0

\* The ceiling of a / b, for b > 0: the least k with a <= k * b.
CeilDiv(a, b) == CHOOSE k \in 0..a : a <= k * b /\ (k = 0 \/ a > (k - 1) * b)

\* Integer::div_ceil ("Divide, rounding up."), as the code computes it.
div_ceil(a, b) ==
    LET dm == div_rem(a, b)
    IN  IF dm[2] = 0 THEN dm[1] + 1 ELSE dm[1]

padding_to_multiple(a, b) ==
    LET m == a % b
    IN  IF m = 0 THEN 0 ELSE b - m

-----------------------------------------------------------------------------
(* The header's constants (src/src/header.rs, src/src/extension.rs).       *)

MAGIC == 1363560955                       \* 0x514649fb
SUPPORTED_VERSION == 3
INCOMPATIBLE_CORRUPT == {1}               \* 0b10
INCOMPATIBLE_NAMES == <<"dirty", "corrupt">>
COMPATIBLE_NAMES == <<"lazy refcounts">>
AUTOCLEAR_NAMES == <<"bitmaps">>
HEADER_LENGTH_V3 == 104
COMMON_LENGTH == 72                       \* the 13 fields of HeaderCommon
EXT_CODE_NONE == 0
EXT_CODE_FEATURE_NAME_TABLE == 1745090647 \* 0x6803f857
FEATURE_KIND_COUNT == 3
FEATURE_NAME_SIZE == 48                   \* kind, bit and 46 bytes of name
KindName(kind) ==
    CASE kind = 0 -> "Incompatible" [] kind = 1 -> "Compatible" [] OTHER -> "Autoclear"

-----------------------------------------------------------------------------
(* Input images.  An image is the content of the backing source: the raw   *)
(* header fields, the extension records that follow the header (zero bytes *)
(* follow the last record, up to the end of the first cluster), the first  *)
(* L1 entry at l1_table_offset (further L1 entries are zero), and three    *)
(* entries of the L2 table stored at TableL2 (the other entries are zero). *)
(* Every other byte of the file is DataByte of its offset.                 *)

TableL1 == 2 * 512      \* where the base image keeps its L1 table
TableL2 == 3 * 512      \* where the images keep their L2 table

FeatureName(kind, bit, name, ascii) ==
    [kind |-> kind, bit |-> bit, name |-> name, ascii |-> ascii]
ExtRecord(code, len, names) == [code |-> code, len |-> len, names |-> names]

BaseImage == [
    len |-> 4096,
    magic |-> MAGIC, version |-> 3,
    backing_file_offset |-> 0, backing_file_size |-> 0,
    cluster_bits |-> 9, size |-> 32768, crypt_method |-> 0,
    l1_size |-> 1, l1_table_offset |-> TableL1,
    refcount_table_offset |-> 4 * 512, refcount_table_clusters |-> 1,
    nb_snapshots |-> 0, snapshots_offset |-> 0,
    incompatible |-> {}, compatible |-> {}, autoclear |-> {},
    refcount_order |-> 4, header_length |-> 104,
    exts |-> << >>,
    l1e |-> {9, 10},        \* L2 table at 1536
    l2e0 |-> {11},          \* guest cluster 0 at 2048
    l2e1 |-> {},            \* guest cluster 1 unallocated
    l2e63 |-> {10, 11} ]    \* guest cluster 63 at 3072

FntNamed == ExtRecord(EXT_CODE_FEATURE_NAME_TABLE, 48,
                      <<FeatureName(0, 2, "future", TRUE)>>)
FntBadKind == ExtRecord(EXT_CODE_FEATURE_NAME_TABLE, 48,
                        <<FeatureName(3, 2, "x", TRUE)>>)
FntShort == ExtRecord(EXT_CODE_FEATURE_NAME_TABLE, 5, << >>)
UnknownExt == ExtRecord(7, 5, << >>)
HugeExt == ExtRecord(7, 600, << >>)
\* After a 104-byte header: the terminator ends at byte 512; the payload
\* ends at byte 512 and the terminator at 520; the payload ends at 520.
FitExt == ExtRecord(7, 392, << >>)
EdgeExt == ExtRecord(7, 400, << >>)
OverExt == ExtRecord(7, 408, << >>)
OtherExt == ExtRecord(9, 8, << >>)
Terminator == ExtRecord(EXT_CODE_NONE, 0, << >>)

\* The values a field takes besides the base image's.
Alternatives == [
    len |-> {50, 90, 1500},
    magic |-> {0}, version |-> {2},
    backing_file_offset |-> {112}, backing_file_size |-> {},
    cluster_bits |-> {8, 10, 23},
    size |-> {0, 1200, 32256, 65536},
    crypt_method |-> {1},
    l1_size |-> {0, 2}, l1_table_offset |-> {100},
    refcount_table_offset |-> {100}, refcount_table_clusters |-> {},
    nb_snapshots |-> {}, snapshots_offset |-> {100},
    incompatible |-> {{0}, {1}, {2}, {1, 2}, {0, 63}},
    compatible |-> {{1}}, autoclear |-> {{0, 5}},
    refcount_order |-> {7}, header_length |-> {100, 112},
    exts |-> {<<FntNamed>>, <<UnknownExt, Terminator>>, <<FntNamed, FntNamed>>,
              <<UnknownExt, UnknownExt>>, <<HugeExt>>, <<FntBadKind>>, <<FntShort>>,
              <<UnknownExt, HugeExt>>, <<Terminator, UnknownExt>>,
              <<UnknownExt, OtherExt, FntNamed>>,
              <<FitExt>>, <<EdgeExt>>, <<OverExt>>, <<OtherExt, FitExt>>},
    l1e |-> {}, l2e0 |-> {}, l2e1 |-> {}, l2e63 |-> {} ]

\* The values the table entries take besides the base image's.
TableAlternatives == [
    l1e |-> {{}, {0, 9, 10}, {8}, {9, 10, 63}, {9, 10, 60}},
    l2e0 |-> {{}, {11, 62}, {0, 11}, {1, 11}, {8}, {12}, {11, 63},
              {1, 11, 55, 61, 62}},
    l2e1 |-> {{9, 11}, {62}, {0, 9, 10, 11}, {9, 11, 56}},
    l2e63 |-> {{}, {62, 63}} ]

FieldValues(alts) ==
    UNION {{<<f, v>> : v \in alts[f]} : f \in DOMAIN alts}

\* The images that differ from one of S in at most k fields, each changed
\* field taking one of the values alts gives it.
RECURSIVE Deviate(_, _, _)
Deviate(S, alts, k) ==
    IF k = 0 THEN S
    ELSE Deviate(S \cup {[i EXCEPT ![fv[1]] = fv[2]] : i \in S, fv \in FieldValues(alts)},
                 alts, k - 1)

\* The images open is run on.
OpenImages == Deviate({BaseImage}, Alternatives, MaxDeviations)

-----------------------------------------------------------------------------
(* Feature (src/src/feature.rs) and FeatureNameTable (extension.rs).       *)

\* Feature::enabled
enabled(bits, bit) == (bits \cap bit) # {}

\* A variant that takes one bit more for known.
unknown_above(bits, names) == bits \ BitRange(0, Len(names))

\* Feature::unknown: the bits at positions >= names.len()
unknown(bits, names) == bits \ BitRange(0, Len(names) - 1)

\* FeatureNameTable::name: the first entry of the table for (kind, bit)
name(table, kind, bit) ==
    LET hits == {i \in 1..Len(table) : table[i].kind = kind /\ table[i].bit = bit}
    IN  IF hits # {}
        THEN table[CHOOSE i \in hits : \A j \in hits : i <= j].name
        ELSE "bit " \o ToString(bit) \o " of " \o KindName(kind)

\* FeatureDebug::fmt: the names of the set bits from the lowest up, " | "
\* between them
RECURSIVE FeatureDebug(_, _, _, _)
FeatureDebug(bits, kind, names, table) ==
    IF bits = {} THEN ""
    ELSE LET pos == CHOOSE b \in bits : \A c \in bits : b <= c
             this == IF pos < Len(names) THEN names[pos + 1]
                     ELSE name(table, kind, pos)
             rest == bits \ {pos}
         IN  IF rest = {} THEN this
             ELSE this \o " | " \o FeatureDebug(rest, kind, names, table)

\* Feature::ensure_known
ensure_known(bits, kind, names, table) ==
    IF unknown(bits, names) = {} THEN NoError
    ELSE Err("UnsupportedFeature",
             FeatureDebug(unknown(bits, names), kind, names, table))

-----------------------------------------------------------------------------
(* Header (src/src/header.rs).                                             *)

\* Header::cluster_size
cluster_size(c) == Pow2(c.cluster_bits)

\* Header::guest_size
guest_size(c) == c.size

\* Header::max_virtual_blocks
max_virtual_blocks(c) == div_ceil(c.size, cluster_size(c))

\* Header::l2_entries
l2_entries(c) == cluster_size(c) \div 8

\* Header::l1_entries
l1_entries(c) == div_ceil(max_virtual_blocks(c), l2_entries(c))

\* Header::guest_offset_info: (l1_l2_idx, l2_block_idx, block_offset)
guest_offset_info(c, pos) ==
    LET b == div_rem(pos, cluster_size(c))
        l == div_rem(b[1], l2_entries(c))
    IN  <<l[1], l[2], b[2]>>

\* Default::default() of HeaderCommon and HeaderV3
DefaultCommon == [
    magic |-> 0, version |-> 0, backing_file_offset |-> 0,
    backing_file_size |-> 0, cluster_bits |-> 0, size |-> 0, crypt_method |-> 0,
    l1_size |-> 0, l1_table_offset |-> 0, refcount_table_offset |-> 0,
    refcount_table_clusters |-> 0, nb_snapshots |-> 0, snapshots_offset |-> 0 ]
DefaultV3 == [
    incompatible |-> {}, compatible |-> {}, autoclear |-> {},
    refcount_order |-> 0, header_length |-> 0,
    feature_name_table |-> << >>, unknown_extensions |-> << >>,
    backing_file_name |-> 0 ]
DefaultHeader == [c |-> DefaultCommon, v3 |-> DefaultV3]

\* The checks of Header::validate_common, in the order the code makes them.
\* Variants of the order: cluster_bits checked last, version checked first.
CommonChecksBitsLast ==
    <<"magic", "version", "backing_file", "crypt_method",
      "l1_size", "l1_offset", "refcount_offset", "snapshots_offset", "cluster_bits">>
CommonChecksVersionFirst ==
    <<"version", "magic", "backing_file", "cluster_bits", "crypt_method",
      "l1_size", "l1_offset", "refcount_offset", "snapshots_offset">>

\* The checks of Header::validate_common, in its order.
CommonChecks ==
    <<"magic", "version", "backing_file", "cluster_bits", "crypt_method",
      "l1_size", "l1_offset", "refcount_offset", "snapshots_offset">>

\* The checks whose condition calls cluster_size(), i.e. evaluates
\* 1 << cluster_bits.
ShiftingChecks == {"l1_size", "l1_offset", "refcount_offset", "snapshots_offset"}

\* One check of validate_common: the error it returns, or NoError.
CommonCheck(check, c) ==
    CASE check = "magic" ->
           IF c.magic # MAGIC THEN Err("FileType", "") ELSE NoError
      [] check = "version" ->
           IF c.version # SUPPORTED_VERSION
           THEN Err("Version", ToString(c.version)) ELSE NoError
      [] check = "backing_file" ->
           IF c.backing_file_offset # 0
           THEN Err("UnsupportedFeature", "backing file") ELSE NoError
      [] check = "cluster_bits" ->
           IF c.cluster_bits < 9 \/ c.cluster_bits > 22
           THEN Err("FileFormat", "bad cluster_bits " \o ToString(c.cluster_bits))
           ELSE NoError
      [] check = "crypt_method" ->
           IF c.crypt_method # 0
           THEN Err("UnsupportedFeature", "encryption") ELSE NoError
      [] check = "l1_size" ->
           IF c.l1_size # l1_entries(c)
           THEN Err("FileFormat", "bad L1 entry count") ELSE NoError
      [] check = "l1_offset" ->
           IF ~is_multiple_of(c.l1_table_offset, cluster_size(c))
           THEN Err("FileFormat", "bad L1 offset") ELSE NoError
      [] check = "refcount_offset" ->
           IF ~is_multiple_of(c.refcount_table_offset, cluster_size(c))
           THEN Err("FileFormat", "bad refcount offset") ELSE NoError
      [] OTHER ->
           IF ~is_multiple_of(c.snapshots_offset, cluster_size(c))
           THEN Err("FileFormat", "bad snapshots offset") ELSE NoError

\* Header::validate_common from its i-th check on: the error of the first
\* check that fails, and the arguments 1 << cluster_bits was evaluated with
\* on the way.
RECURSIVE RunChecks(_, _, _, _)
RunChecks(checks, c, i, shifts) ==
    IF i > Len(checks) THEN [err |-> NoError, shifts |-> shifts]
    ELSE LET after == IF checks[i] \in ShiftingChecks
                      THEN shifts \cup {c.cluster_bits} ELSE shifts
             e == CommonCheck(checks[i], c)
         IN  IF e # NoError THEN [err |-> e, shifts |-> after]
             ELSE RunChecks(checks, c, i + 1, after)

validate_common(c) == RunChecks(CommonChecks, c, 1, {})

(* Qcow2::open runs Header::read, which is read_common, then read_v3 with  *)
(* its loop over the extension records.  The position of open is          *)
(*   pc             the part of Header::read to run next                   *)
(*   position       io.position() of the sequential cursor                 *)
(*   seen           the HashSet of read_extensions                         *)
(*   actual_length  the local of read_v3                                   *)
(*   next_ext       the index of the extension record under the cursor     *)
(*   shifts         the arguments 1 << cluster_bits has been evaluated     *)
(*                  with so far (history)                                  *)
(*   records        the cursor positions at which the codes of the         *)
(*                  extension records were read, in order (history)        *)
(*   payloads       the byte ranges handed to the readers of the           *)
(*                  extensions, in order (history)                         *)
(*   result         Pending, Ok or the error open returns                  *)
Pending == Err("pending", "")
Ok == Err("Ok", "")

OpenStart == [pc |-> "read_common", position |-> 0, seen |-> {},
              actual_length |-> 0, next_ext |-> 1, shifts |-> {},
              records |-> << >>, payloads |-> << >>, result |-> Pending]

Fail(o, e) == [o EXCEPT !.pc = "done", !.result = e]

\* Header::read_common: the 13 fields in order, then validate_common.
read_common(img, h, o) ==
    IF img.len < COMMON_LENGTH
    THEN [h |-> h, o |-> Fail(o, IoError)]
    ELSE LET c == [f \in DOMAIN DefaultCommon |-> img[f]]
             v == validate_common(c)
             o2 == [o EXCEPT !.position = COMMON_LENGTH, !.shifts = v.shifts]
         IN  [h |-> [h EXCEPT !.c = c],
              o |-> IF v.err # NoError THEN Fail(o2, v.err)
                    ELSE [o2 EXCEPT !.pc = "read_v3"]]

\* A variant that leaves the cursor where the five fields end.
read_v3_fields_no_skip(img, h, o) ==
    IF img.len < HEADER_LENGTH_V3
    THEN [h |-> h, o |-> Fail(o, IoError)]
    ELSE [h |-> [h EXCEPT !.v3.incompatible = img.incompatible,
                          !.v3.compatible = img.compatible,
                          !.v3.autoclear = img.autoclear,
                          !.v3.refcount_order = img.refcount_order,
                          !.v3.header_length = img.header_length],
          o |-> [o EXCEPT !.pc = "read_extensions",
                          !.position = o.position + 32,
                          !.actual_length = o.position + 32]]

\* Header::read_v3, lines 244-254: the five fields, the skip to
\* header_length, actual_length.
read_v3_fields(img, h, o) ==
    IF img.len < HEADER_LENGTH_V3
    THEN [h |-> h, o |-> Fail(o, IoError)]
    ELSE LET at == o.position + 32
             position == IF img.header_length > at THEN img.header_length ELSE at
         IN  [h |-> [h EXCEPT !.v3.incompatible = img.incompatible,
                              !.v3.compatible = img.compatible,
                              !.v3.autoclear = img.autoclear,
                              !.v3.refcount_order = img.refcount_order,
                              !.v3.header_length = img.header_length],
              o |-> [o EXCEPT !.pc = "read_extensions",
                              !.position = position,
                              !.actual_length = position]]

\* The extension record under the cursor: the next record of the image, or
\* the zero bytes that follow the last one.
RecordAt(img, k) ==
    IF k <= Len(img.exts) THEN img.exts[k] ELSE ExtRecord(EXT_CODE_NONE, 0, << >>)

\* FeatureNameTable::read on a payload of rec.len bytes: the entries are
\* checked and pushed in order; bytes left over that do not make an entry
\* end the read with an I/O error (UnexpectedEof inside the entry).
RECURSIVE feature_name_table_read(_, _, _)
feature_name_table_read(rec, i, table) ==
    IF i > rec.len \div FEATURE_NAME_SIZE
    THEN IF rec.len % FEATURE_NAME_SIZE # 0
         THEN [err |-> IoError, table |-> table]
         ELSE [err |-> NoError, table |-> table]
    ELSE LET n == rec.names[i]
         IN  IF n.kind >= FEATURE_KIND_COUNT
             THEN [err |-> Err("FileFormat", "unknown feature type in feature name table"),
                   table |-> table]
             ELSE IF n.bit > 63
             THEN [err |-> Err("FileFormat", "bit number too high in feature name table"),
                   table |-> table]
             ELSE IF ~n.ascii
             THEN [err |-> Err("FileFormat", "unsafe characters in feature name table"),
                   table |-> table]
             ELSE feature_name_table_read(rec, i + 1,
                      Append(table, [kind |-> n.kind, bit |-> n.bit, name |-> n.name]))

\* A variant that finds no code in the set.
seen_contains_none(seen, ext_code) == FALSE

\* seen.contains(&ext_code)
seen_contains(seen, ext_code) == ext_code \in seen

\* A variant that compares the length alone with the cluster size.
payload_too_big_alone(len, position, size) == len > size

\* len + io.position() > self.cluster_size()
payload_too_big(len, position, size) == len + position > size

\* One iteration of the loop of Header::read_extensions.  (Both readers
\* consume their whole payload, so the "bytes left" error cannot arise.)
read_extension(img, h, o) ==
    LET rec == RecordAt(img, o.next_ext)
        position == o.position + 8
        after == position + rec.len + padding_to_multiple(rec.len, 8)
        at == [o EXCEPT !.records = Append(@, o.position)]
        taken == [at EXCEPT !.payloads = Append(@, [at |-> position, len |-> rec.len])]
    IN  IF o.position + 4 > img.len
        THEN [h |-> h, o |-> Fail(o, IoError)]
        ELSE IF seen_contains(o.seen, rec.code)
        THEN [h |-> h,
              o |-> Fail([at EXCEPT !.position = o.position + 4],
                         Err("FileFormat",
                             "duplicate header extension " \o AltHex(rec.code)))]
        ELSE IF position > img.len
        THEN [h |-> h, o |-> Fail(at, IoError)]
        ELSE IF rec.code = EXT_CODE_NONE
        THEN [h |-> h,
              o |-> [at EXCEPT !.pc = "validate_v3", !.position = position,
                               !.seen = @ \cup {rec.code}]]
        ELSE IF payload_too_big(rec.len, position, cluster_size(h.c))
        THEN [h |-> h,
              o |-> Fail([at EXCEPT !.position = position],
                         Err("FileFormat", "complete header too big for first cluster"))]
        ELSE IF after > img.len
        THEN [h |-> h, o |-> Fail(taken, IoError)]
        ELSE IF rec.code = EXT_CODE_FEATURE_NAME_TABLE
        THEN LET r == feature_name_table_read(rec, 1, h.v3.feature_name_table)
             IN  IF r.err # NoError THEN [h |-> h, o |-> Fail(taken, r.err)]
                 ELSE [h |-> [h EXCEPT !.v3.feature_name_table = r.table],
                       o |-> [taken EXCEPT !.position = after, !.next_ext = @ + 1,
                                           !.seen = @ \cup {rec.code}]]
        ELSE [h |-> [h EXCEPT !.v3.unknown_extensions =
                                  Append(@, [code |-> rec.code, size |-> rec.len])],
              o |-> [taken EXCEPT !.position = after, !.next_ext = @ + 1,
                                  !.seen = @ \cup {rec.code}]]

\* Header::read_v3, lines 256-285: the backing file name, then the
\* validation of the version-3 fields.
read_v3_validate(img, h, o) ==
    LET named == h.c.backing_file_offset # 0
        position == IF named THEN o.position + h.c.backing_file_size ELSE o.position
        known == ensure_known(h.v3.incompatible, 0, INCOMPATIBLE_NAMES,
                              h.v3.feature_name_table)
        e == IF named /\ h.c.backing_file_offset # o.position
             THEN Err("FileFormat", "backing file offset not consistent with extensions")
             ELSE IF named /\ position > img.len
             THEN IoError
             ELSE IF enabled(h.v3.incompatible, INCOMPATIBLE_CORRUPT)
             THEN Err("UnsupportedFeature", "corrupt bit")
             ELSE IF known # NoError
             THEN known
             ELSE IF h.v3.refcount_order > 6
             THEN Err("FileFormat", "bad refcount_order " \o ToString(h.v3.refcount_order))
             ELSE IF h.v3.header_length # o.actual_length
             THEN Err("FileFormat", "header is " \o ToString(o.actual_length)
                                    \o " bytes, file claims "
                                    \o ToString(h.v3.header_length))
             ELSE IF position > cluster_size(h.c)
             THEN Err("FileFormat", "complete header too big for first cluster")
             ELSE Ok
    IN  [h |-> IF named /\ e = Ok
               THEN [h EXCEPT !.v3.backing_file_name = h.c.backing_file_size]
               ELSE h,
         o |-> [o EXCEPT !.pc = "done", !.result = e, !.position = position]]

\* Header::read from the position o on, one part at a time.
OpenStep(img, h, o) ==
    CASE o.pc = "read_common" -> read_common(img, h, o)
      [] o.pc = "read_v3" -> read_v3_fields(img, h, o)
      [] o.pc = "read_extensions" -> read_extension(img, h, o)
      [] OTHER -> read_v3_validate(img, h, o)

\* Qcow2::open to its end.
RECURSIVE RunOpen(_, _, _)
RunOpen(img, h, o) ==
    IF o.pc = "done" THEN [h |-> h, o |-> o]
    ELSE LET n == OpenStep(img, h, o) IN RunOpen(img, n.h, n.o)

open(img) == RunOpen(img, DefaultHeader, OpenStart)

-----------------------------------------------------------------------------
(* The bytes of the backing source.                                        *)

StaleByte == 251 + 4    \* what a caller's buffer holds before read_at
DataByte(o) == (o % 251) + 1

\* The two tables of an image: the cluster at l1_table_offset holds the L1
\* entries, the cluster at TableL2 the L2 entries.
InL1Table(img, o) == img.l1_table_offset <= o /\ o < img.l1_table_offset + 512
InL2Table(img, o) == TableL2 <= o /\ o < TableL2 + 512
TableWord(img, o) ==
    IF InL1Table(img, o)
    THEN IF o = img.l1_table_offset THEN img.l1e ELSE {}
    ELSE CASE o = TableL2 -> img.l2e0
           [] o = TableL2 + 8 -> img.l2e1
           [] o = TableL2 + 8 * 63 -> img.l2e63
           [] OTHER -> {}

\* Byte k of a big-endian u64 (byte 0 holds bits 56..63).
ByteOfWord(w, k) ==
    LET low == 8 * (7 - k)
    IN  BitsValue({b - low : b \in w \cap BitRange(low, low + 7)})

FileByte(img, o) ==
    LET base == o - (o % 8)
    IN  IF InL1Table(img, base) \/ InL2Table(img, base)
        THEN ByteOfWord(TableWord(img, base), o % 8)
        ELSE DataByte(o)

\* The big-endian u64 at offset o.
WordAt(img, o) ==
    IF o % 8 = 0 /\ (InL1Table(img, o) \/ InL2Table(img, o))
    THEN TableWord(img, o)
    ELSE {b \in U64Bits :
            (FileByte(img, o + 7 - (b \div 8)) \div Pow2(b % 8)) % 2 = 1}

\* ReadIntAt::read_u64_at on the backing source
read_u64_at(img, o) ==
    IF o + 8 > img.len THEN [err |-> IoError, word |-> {}]
    ELSE [err |-> NoError, word |-> WordAt(img, o)]

-----------------------------------------------------------------------------
(* The translator and the reader (src/src/read.rs).                        *)

L2_CACHE_SIZE == 32     \* src/src/lib.rs: the capacity of Qcow2.l2_cache

L1_COW == {63}
L1_RESERVED == BitRange(56, 62) \cup BitRange(0, 7)     \* (0x7F << 56) | 0xFF
L1_POS == U64Bits \ (L1_COW \cup L1_RESERVED)

L2_COW == {63}
L2_COMPRESSED == {62}
L2_ZERO == {0}
L2_RESERVED == BitRange(56, 61) \cup BitRange(1, 7)     \* (0x3F << 56) | 0xFE
L2_POS == U64Bits \ (L2_COW \cup L2_COMPRESSED \cup L2_ZERO \cup L2_RESERVED)
L2_COMPRESSED_MASK == U64Bits \ (L2_COW \cup L2_COMPRESSED)

L1Empty == [tag |-> "Empty", pos |-> {}, cow |-> FALSE]
L1Standard(pos, cow) == [tag |-> "Standard", pos |-> pos, cow |-> cow]
L2Empty == [tag |-> "Empty", pos |-> {}, cow |-> FALSE, zero |-> FALSE, size |-> {}]
L2Standard(pos, cow, zero) ==
    [tag |-> "Standard", pos |-> pos, cow |-> cow, zero |-> zero, size |-> {}]
L2Compressed(pos, cow, size) ==
    [tag |-> "Compressed", pos |-> pos, cow |-> cow, zero |-> FALSE, size |-> size]

\* Qcow2::l1_read: l1_entries() big-endian words from l1_offset.
l1_read(img, c, l1_offset) ==
    LET n == l1_entries(c)
    IN  IF n > 0 /\ l1_offset + 8 * n > img.len
        THEN [err |-> IoError, l1 |-> << >>]
        ELSE [err |-> NoError,
              l1 |-> [i \in 1..n |-> WordAt(img, l1_offset + 8 * (i - 1))]]

\* Qcow2::l1_entry_read; l1 is the reader's in-memory table.
l1_entry_read(l1, l1_l2_idx) ==
    IF l1_l2_idx + 1 > Len(l1) THEN [err |-> IoError, entry |-> L1Empty]
    ELSE LET entry == l1[l1_l2_idx + 1]
             pos == entry \cap L1_POS
         IN  IF entry \cap L1_RESERVED # {}
             THEN [err |-> Err("FileFormat", "reserved bit used in L1 entry"),
                   entry |-> L1Empty]
             ELSE IF pos = {} THEN [err |-> NoError, entry |-> L1Empty]
             ELSE [err |-> NoError,
                   entry |-> L1Standard(pos, entry \cap L1_COW # {})]

\* LruCache::get_mut and LruCache::insert on a cache kept as a sequence of
\* [key, value], most recently used first.
CacheKeys(cache) == {cache[i].key : i \in 1..Len(cache)}
CacheValue(cache, key) ==
    cache[CHOOSE i \in 1..Len(cache) : cache[i].key = key].value
CacheWithout(cache, key) == SelectSeq(cache, LAMBDA e : e.key # key)
CacheInsert(cache, key, value) ==
    LET all == <<[key |-> key, value |-> value]>> \o CacheWithout(cache, key)
    IN  IF Len(all) > L2_CACHE_SIZE THEN SubSeq(all, 1, L2_CACHE_SIZE) ELSE all

\* A variant that caches: it looks the entry up under its own offset but
\* inserts what it read under the offset of the table.
l2_entry_read_raw_miskeyed(img, cache, l2_pos, l2_block_idx) ==
    LET reads == <<[op |-> "l2", table |-> l2_pos, idx |-> l2_block_idx]>>
    IN  IF Huge(l2_pos)
        THEN [err |-> IoError, word |-> {}, cache |-> cache, reads |-> reads]
        ELSE LET at == BitsValue(l2_pos) + l2_block_idx * 8
                 r == read_u64_at(img, at)
             IN  IF at \in CacheKeys(cache)
                 THEN [err |-> NoError, word |-> CacheValue(cache, at),
                       cache |-> CacheInsert(cache, at, CacheValue(cache, at)),
                       reads |-> << >>]
                 ELSE [err |-> r.err, word |-> r.word,
                       cache |-> IF r.err # NoError THEN cache
                                 ELSE CacheInsert(cache, BitsValue(l2_pos), r.word),
                       reads |-> reads]

\* A variant that caches one word for each L2 table, under the offset of
\* the table.
l2_entry_read_raw_by_table(img, cache, l2_pos, l2_block_idx) ==
    LET reads == <<[op |-> "l2", table |-> l2_pos, idx |-> l2_block_idx]>>
    IN  IF Huge(l2_pos)
        THEN [err |-> IoError, word |-> {}, cache |-> cache, reads |-> reads]
        ELSE LET key == BitsValue(l2_pos)
                 r == read_u64_at(img, key + l2_block_idx * 8)
             IN  IF key \in CacheKeys(cache)
                 THEN [err |-> NoError, word |-> CacheValue(cache, key),
                       cache |-> CacheInsert(cache, key, CacheValue(cache, key)),
                       reads |-> << >>]
                 ELSE [err |-> r.err, word |-> r.word,
                       cache |-> IF r.err # NoError THEN cache
                                 ELSE CacheInsert(cache, key, r.word),
                       reads |-> reads]

\* Qcow2::l2_entry_read_raw: one word from the backing source, on every
\* call.  The code neither consults nor fills l2_cache ("TODO: Cache
\* things."), so the cache comes back as it was; reads is the read of the
\* backing source the call made.
l2_entry_read_raw(img, cache, l2_pos, l2_block_idx) ==
    LET reads == <<[op |-> "l2", table |-> l2_pos, idx |-> l2_block_idx]>>
    IN  IF Huge(l2_pos)
        THEN [err |-> IoError, word |-> {}, cache |-> cache, reads |-> reads]
        ELSE LET r == read_u64_at(img, BitsValue(l2_pos) + l2_block_idx * 8)
             IN  [err |-> r.err, word |-> r.word, cache |-> cache, reads |-> reads]

\* A variant that splits a compressed entry at bit 62 - cluster_bits.
l2_entry_parse_narrow(c, entry) ==
    LET cow == entry \cap L2_COW # {}
    IN  IF entry \cap L2_COMPRESSED # {}
        THEN LET x == 62 - c.cluster_bits
                 masked == entry \cap L2_COMPRESSED_MASK
                 pos == masked \cap BitRange(0, x - 1)
                 size == {b + 9 : b \in ShiftRight(masked, x)} \cap U64Bits
             IN  [err |-> NoError, entry |-> L2Compressed(pos, cow, size)]
        ELSE IF entry \cap L2_RESERVED # {}
        THEN [err |-> Err("FileFormat", "reserved bit used in L2 entry"),
              entry |-> L2Empty]
        ELSE LET pos == entry \cap L2_POS
             IN  IF pos # {}
                 THEN [err |-> NoError,
                       entry |-> L2Standard(pos, cow, entry \cap L2_ZERO # {})]
                 ELSE [err |-> NoError, entry |-> L2Empty]

\* Qcow2::l2_entry_parse
l2_entry_parse(c, entry) ==
    LET cow == entry \cap L2_COW # {}
    IN  IF entry \cap L2_COMPRESSED # {}
        THEN LET x == 70 - c.cluster_bits
                 masked == entry \cap L2_COMPRESSED_MASK
                 pos == masked \cap BitRange(0, x - 1)
                 size == {b + 9 : b \in ShiftRight(masked, x)} \cap U64Bits
             IN  [err |-> NoError, entry |-> L2Compressed(pos, cow, size)]
        ELSE IF entry \cap L2_RESERVED # {}
        THEN [err |-> Err("FileFormat", "reserved bit used in L2 entry"),
              entry |-> L2Empty]
        ELSE LET pos == entry \cap L2_POS
             IN  IF pos # {}
                 THEN [err |-> NoError,
                       entry |-> L2Standard(pos, cow, entry \cap L2_ZERO # {})]
                 ELSE [err |-> NoError, entry |-> L2Empty]

\* Qcow2::l2_entry_read: the entry, or the error, and the reads of the
\* backing source made on the way.
l2_entry_read(img, c, l1, cache, guest_offset) ==
    LET info == guest_offset_info(c, guest_offset)
        e1 == l1_entry_read(l1, info[1])
    IN  IF e1.err # NoError
        THEN [err |-> e1.err, entry |-> L2Empty, reads |-> << >>, cache |-> cache]
        ELSE IF e1.entry.tag = "Empty"
        THEN [err |-> NoError, entry |-> L2Empty, reads |-> << >>, cache |-> cache]
        ELSE LET raw == l2_entry_read_raw(img, cache, e1.entry.pos, info[2])
                 reads == raw.reads
             IN  IF raw.err # NoError
                 THEN [err |-> raw.err, entry |-> L2Empty, reads |-> reads,
                       cache |-> raw.cache]
                 ELSE LET e2 == l2_entry_parse(c, raw.word)
                      IN  [err |-> e2.err, entry |-> e2.entry, reads |-> reads,
                           cache |-> raw.cache]

\* impl From<Error> for io::Error
IoOther(e) == [kind |-> "io::ErrorKind::Other", inner |-> e]

Min(a, b) == IF a < b THEN a ELSE b

\* The bytes of a positioned read of size bytes at pos + offset into
\* buf[from + 1 .. from + size] (ReadAt::read_exact_at).
read_exact_at(img, pos, offset, buf, from, size) ==
    IF Huge(pos)
    THEN [err |-> IoError, buf |-> buf,
          reads |-> <<[op |-> "data", pos |-> pos, len |-> size]>>]
    ELSE LET at == BitsValue(pos) + offset
             have == IF at >= img.len THEN 0 ELSE Min(size, img.len - at)
         IN  [err |-> IF have < size THEN IoError ELSE NoError,
              buf |-> [i \in 1..Len(buf) |->
                         IF from < i /\ i <= from + have
                         THEN FileByte(img, at + (i - from - 1))
                         ELSE buf[i]],
              reads |-> <<[op |-> "data", pos |-> pos, at |-> at, len |-> size]>>]

\* A variant that reads a compressed cluster as if it were a standard one.
guest_block_read_raw_compressed(img, entry, offset, buf, from, size) ==
    LET chunk == (from + 1)..(from + size)
        zero_fill == [i \in 1..Len(buf) |-> IF i \in chunk THEN 0 ELSE buf[i]]
    IN  CASE entry.tag = "Empty" ->
               [err |-> NoError, buf |-> zero_fill, reads |-> << >>]
          [] entry.tag = "Standard" /\ entry.zero ->
               [err |-> NoError, buf |-> zero_fill, reads |-> << >>]
          [] OTHER -> read_exact_at(img, entry.pos, offset, buf, from, size)

\* Qcow2::guest_block_read on buf[from + 1 .. from + size].  A positioned
\* read that meets the end of the source fills what the source has and
\* fails.
guest_block_read(img, entry, offset, buf, from, size) ==
    LET chunk == (from + 1)..(from + size)
        zero_fill == [i \in 1..Len(buf) |-> IF i \in chunk THEN 0 ELSE buf[i]]
    IN  CASE entry.tag = "Empty" ->
               [err |-> NoError, buf |-> zero_fill, reads |-> << >>]
          [] entry.tag = "Standard" /\ entry.zero ->
               [err |-> NoError, buf |-> zero_fill, reads |-> << >>]
          [] entry.tag = "Standard" /\ ~entry.zero ->
               read_exact_at(img, entry.pos, offset, buf, from, size)
          [] OTHER ->
               [err |-> Err("UnsupportedFeature", "compressed blocks"),
                buf |-> buf, reads |-> << >>]

(* A read_at call:                                                         *)
(*   pos, len   the guest offset and buf.len() the caller passed           *)
(*   buf        the caller's buffer                                        *)
(*   state      "loop" inside the while loop of guest_read, "done" after   *)
(*              the return                                                 *)
(*   ret, offset, guest_block_pos   the locals of guest_read               *)
(*   taken      how many bytes of buf[..ret] the loop has sliced off       *)
(*   result     Ok(count) or Err(e) once done                              *)
(*   log        for each iteration of the loop, the guest block it         *)
(*              translated, the reads of the backing source it made, the   *)
(*              offset it had and, once the translation has succeeded,     *)
(*              the size of the chunk it cut from the buffer (history)     *)
NoCall == [state |-> "idle"]

Returned(count) == [ok |-> TRUE, count |-> count, err |-> NoError]
Failed(e) == [ok |-> FALSE, count |-> 0, err |-> IoOther(e)]

\* A variant that does not cut the buffer at the end of the guest.
guest_read_enter_uncut(c, pos, len) ==
    LET fresh == [state |-> "done", pos |-> pos, len |-> len,
                  buf |-> [i \in 1..len |-> StaleByte],
                  ret |-> 0, offset |-> 0, guest_block_pos |-> 0, taken |-> 0,
                  result |-> Returned(0), log |-> << >>]
    IN  IF pos >= guest_size(c) THEN fresh
        ELSE LET offset == pos % cluster_size(c)
             IN  [fresh EXCEPT !.state = IF len > 0 THEN "loop" ELSE "done",
                               !.ret = len, !.offset = offset,
                               !.guest_block_pos = pos - offset,
                               !.result = Returned(len)]

\* Qcow2::guest_read, lines 136-143, and the return when the loop has
\* nothing to do.
guest_read_enter(c, pos, len) ==
    LET fresh == [state |-> "done", pos |-> pos, len |-> len,
                  buf |-> [i \in 1..len |-> StaleByte],
                  ret |-> 0, offset |-> 0, guest_block_pos |-> 0, taken |-> 0,
                  result |-> Returned(0), log |-> << >>]
    IN  IF pos >= guest_size(c) THEN fresh
        ELSE LET ret == Min(len, guest_size(c) - pos)
                 offset == pos % cluster_size(c)
             IN  [fresh EXCEPT !.state = IF ret > 0 THEN "loop" ELSE "done",
                               !.ret = ret, !.offset = offset,
                               !.guest_block_pos = pos - offset,
                               !.result = Returned(ret)]

\* A variant that keeps the offset of the first cluster for the later ones.
guest_read_block_same_offset(img, c, l1, cache, k) ==
    LET t == l2_entry_read(img, c, l1, cache, k.guest_block_pos)
        translated == Append(k.log, [block |-> k.guest_block_pos, reads |-> t.reads,
                                     offset |-> k.offset, chunk |-> << >>])
        size == Min(k.ret - k.taken, cluster_size(c) - k.offset)
        r == guest_block_read(img, t.entry, k.offset, k.buf, k.taken, size)
        both == Append(k.log, [block |-> k.guest_block_pos,
                               reads |-> t.reads \o r.reads,
                               offset |-> k.offset, chunk |-> <<size>>])
        after ==
            IF t.err # NoError
            THEN [k EXCEPT !.state = "done", !.result = Failed(t.err),
                           !.log = translated]
            ELSE IF r.err # NoError
            THEN [k EXCEPT !.state = "done", !.result = Failed(r.err),
                           !.buf = r.buf, !.log = both]
            ELSE [k EXCEPT !.state = IF k.taken + size < k.ret THEN "loop" ELSE "done",
                           !.buf = r.buf, !.taken = @ + size,
                           !.guest_block_pos = @ + cluster_size(c),
                           !.log = both]
    IN  [call |-> after, cache |-> t.cache]

\* A variant that cuts a chunk of up to a whole cluster whatever the
\* offset.
guest_read_block_whole_cluster(img, c, l1, cache, k) ==
    LET t == l2_entry_read(img, c, l1, cache, k.guest_block_pos)
        translated == Append(k.log, [block |-> k.guest_block_pos, reads |-> t.reads,
                                     offset |-> k.offset, chunk |-> << >>])
        size == Min(k.ret - k.taken, cluster_size(c))
        r == guest_block_read(img, t.entry, k.offset, k.buf, k.taken, size)
        both == Append(k.log, [block |-> k.guest_block_pos,
                               reads |-> t.reads \o r.reads,
                               offset |-> k.offset, chunk |-> <<size>>])
        after ==
            IF t.err # NoError
            THEN [k EXCEPT !.state = "done", !.result = Failed(t.err),
                           !.log = translated]
            ELSE IF r.err # NoError
            THEN [k EXCEPT !.state = "done", !.result = Failed(r.err),
                           !.buf = r.buf, !.log = both]
            ELSE [k EXCEPT !.state = IF k.taken + size < k.ret THEN "loop" ELSE "done",
                           !.buf = r.buf, !.taken = @ + size,
                           !.guest_block_pos = @ + cluster_size(c), !.offset = 0,
                           !.log = both]
    IN  [call |-> after, cache |-> t.cache]

\* A variant that notes the error of a cluster and goes on to the next.
guest_read_block_goes_on(img, c, l1, cache, k) ==
    LET t == l2_entry_read(img, c, l1, cache, k.guest_block_pos)
        size == Min(k.ret - k.taken, cluster_size(c) - k.offset)
        r == guest_block_read(img, t.entry, k.offset, k.buf, k.taken, size)
        translated == Append(k.log, [block |-> k.guest_block_pos, reads |-> t.reads,
                                     offset |-> k.offset, chunk |-> << >>])
        both == Append(k.log, [block |-> k.guest_block_pos,
                               reads |-> t.reads \o r.reads,
                               offset |-> k.offset, chunk |-> <<size>>])
        on == [k EXCEPT !.state = IF k.taken + size < k.ret THEN "loop" ELSE "done",
                        !.taken = @ + size,
                        !.guest_block_pos = @ + cluster_size(c), !.offset = 0]
        after ==
            IF t.err # NoError
            THEN [on EXCEPT !.result = Failed(t.err), !.log = translated]
            ELSE IF r.err # NoError
            THEN [on EXCEPT !.result = Failed(r.err), !.buf = r.buf, !.log = both]
            ELSE [on EXCEPT !.buf = r.buf, !.log = both]
    IN  [call |-> after, cache |-> t.cache]

\* Qcow2::guest_read, lines 145-152: one iteration of the loop, and the
\* return that follows the last one.
guest_read_block(img, c, l1, cache, k) ==
    LET t == l2_entry_read(img, c, l1, cache, k.guest_block_pos)
        translated == Append(k.log, [block |-> k.guest_block_pos, reads |-> t.reads,
                                     offset |-> k.offset, chunk |-> << >>])
        size == Min(k.ret - k.taken, cluster_size(c) - k.offset)
        r == guest_block_read(img, t.entry, k.offset, k.buf, k.taken, size)
        both == Append(k.log, [block |-> k.guest_block_pos,
                               reads |-> t.reads \o r.reads,
                               offset |-> k.offset, chunk |-> <<size>>])
        after ==
            IF t.err # NoError
            THEN [k EXCEPT !.state = "done", !.result = Failed(t.err),
                           !.log = translated]
            ELSE IF r.err # NoError
            THEN [k EXCEPT !.state = "done", !.result = Failed(r.err),
                           !.buf = r.buf, !.log = both]
            ELSE [k EXCEPT !.state = IF k.taken + size < k.ret THEN "loop" ELSE "done",
                           !.buf = r.buf, !.taken = @ + size,
                           !.guest_block_pos = @ + cluster_size(c), !.offset = 0,
                           !.log = both]
    IN  [call |-> after, cache |-> t.cache]

\* Qcow2::guest_read from the iteration k is at to its return.
RECURSIVE guest_read_loop(_, _, _, _, _)
guest_read_loop(img, c, l1, cache, k) ==
    IF k.state # "loop" THEN k
    ELSE LET n == guest_read_block(img, c, l1, cache, k)
         IN  guest_read_loop(img, c, l1, n.cache, n.call)

\* Qcow2::guest_read, whole.
guest_read(img, c, l1, cache, pos, len) ==
    guest_read_loop(img, c, l1, cache, guest_read_enter(c, pos, len))

-----------------------------------------------------------------------------
(* Specifications.                                                         *)

\* The images read_at is run on: the base image with at most one table
\* entry changed, or with a header open accepts as well.
ReadVariants ==
    Deviate({BaseImage}, TableAlternatives, 1) \cup
    {[BaseImage EXCEPT !.l2e0 = {1, 11}, !.l2e1 = {62}],
     [BaseImage EXCEPT !.l2e0 = {62}, !.l2e1 = {9, 11}],
     [BaseImage EXCEPT !.size = 1200, !.l1_size = 0],
     [BaseImage EXCEPT !.size = 32256, !.l1_size = 2],
     [BaseImage EXCEPT !.len = 1500],
     [BaseImage EXCEPT !.exts = <<UnknownExt, Terminator>>, !.compatible = {1}]}
ReadImages == {img \in ReadVariants : open(img).o.result = Ok}

\* The (pos, buf.len()) a caller passes to read_at on an image.
ReadCalls(c) ==
    ({0, cluster_size(c) - 2, cluster_size(c), guest_size(c) - 2, guest_size(c)}
        \cap Nat) \X (0..MaxLen)
    \cup {<<cluster_size(c) - 2, cluster_size(c) + 3>>,
          <<cluster_size(c), cluster_size(c) + 1>>}

\* The threads that share the facade, none of them in a call.
Threads == 1..MaxThreads
\* The calls a thread makes: in the first cluster, across the end of it, in
\* the second, across the end of the guest.
ThreadCalls(c) ==
    {a \in {<<0, 1>>, <<cluster_size(c) - 2, MaxLen>>, <<cluster_size(c), 1>>,
            <<guest_size(c) - 2, MaxLen>>} : a[1] >= 0}
NoThreads == [t \in Threads |-> NoCall]
NoReader == [state |-> "none", l1 |-> << >>]
NothingSaved == [whole |-> NoCall, part |-> NoCall]

InitOpen ==
    /\ io \in OpenImages
    /\ header = DefaultHeader
    /\ l2_cache = << >>
    /\ opn = OpenStart
    /\ reader = NoReader
    /\ call = NoCall
    /\ saved = NothingSaved
    /\ threads = NoThreads

InitRead ==
    /\ io \in ReadImages
    /\ header = open(io).h
    /\ l2_cache = << >>
    /\ opn = open(io).o
    /\ reader = NoReader
    /\ call = NoCall
    /\ saved = NothingSaved
    /\ threads = NoThreads

Init ==
    /\ io \in OpenImages \cup ReadVariants
    /\ header = DefaultHeader
    /\ l2_cache = << >>
    /\ opn = OpenStart
    /\ reader = NoReader
    /\ call = NoCall
    /\ saved = NothingSaved
    /\ threads = NoThreads

\* Header::read: read_common.
ReadCommon ==
    /\ opn.pc = "read_common"
    /\ LET n == read_common(io, header, opn)
       IN  header' = n.h /\ opn' = n.o
    /\ UNCHANGED <<io, l2_cache, reader, call, saved, threads>>

\* Header::read_v3: the fixed fields.
ReadV3 ==
    /\ opn.pc = "read_v3"
    /\ LET n == read_v3_fields(io, header, opn)
       IN  header' = n.h /\ opn' = n.o
    /\ UNCHANGED <<io, l2_cache, reader, call, saved, threads>>

\* Header::read_extensions: one record.
ReadExtension ==
    /\ opn.pc = "read_extensions"
    /\ LET n == read_extension(io, header, opn)
       IN  header' = n.h /\ opn' = n.o
    /\ UNCHANGED <<io, l2_cache, reader, call, saved, threads>>

\* Header::read_v3: the validation; Qcow2::open returns.
ValidateV3 ==
    /\ opn.pc = "validate_v3"
    /\ LET n == read_v3_validate(io, header, opn)
       IN  header' = n.h /\ opn' = n.o
    /\ UNCHANGED <<io, l2_cache, reader, call, saved, threads>>

\* Qcow2::reader on the facade open returned; a facade hands out any
\* number of readers.
Reader ==
    /\ opn.pc = "done" /\ opn.result = Ok
    /\ reader.state \in {"none", "ready"}
    /\ call.state # "loop"
    /\ LET r == l1_read(io, header.c, header.c.l1_table_offset)
       IN  reader' = IF r.err # NoError THEN [state |-> "failed", l1 |-> << >>]
                     ELSE [state |-> "ready", l1 |-> r.l1]
    /\ UNCHANGED <<io, header, l2_cache, opn, call, saved, threads>>

\* Reader::read_at is called: guest_read up to its loop.
ReadAt ==
    /\ reader.state = "ready"
    /\ call.state \in {"idle", "done"}
    /\ \E a \in ReadCalls(header.c) : call' = guest_read_enter(header.c, a[1], a[2])
    /\ UNCHANGED <<io, header, l2_cache, opn, reader, saved, threads>>

\* One iteration of the loop of guest_read.
ReadBlock ==
    /\ call.state = "loop"
    /\ LET n == guest_read_block(io, header.c, reader.l1, l2_cache, call)
       IN  call' = n.call /\ l2_cache' = n.cache
    /\ UNCHANGED <<io, header, opn, reader, saved, threads>>

\* The caller keeps the outcome of the call that has returned: the first
\* one it keeps as `whole`, and then one for the same offset and a buffer
\* no longer as `part`.
Remember ==
    /\ call.state = "done"
    /\ \/ saved.whole = NoCall /\ saved' = [saved EXCEPT !.whole = call]
       \/ /\ saved.whole # NoCall /\ saved.part = NoCall
          /\ call.pos = saved.whole.pos /\ call.len <= saved.whole.len
          /\ saved' = [saved EXCEPT !.part = call]
    /\ UNCHANGED <<io, header, l2_cache, opn, reader, call, threads>>

\* A thread calls Reader::read_at on a reader of the shared facade.
ThreadReadAt(t) ==
    /\ reader.state = "ready"
    /\ threads[t].state \in {"idle", "done"}
    /\ \E a \in ThreadCalls(header.c) :
          threads' = [threads EXCEPT ![t] = guest_read_enter(header.c, a[1], a[2])]
    /\ UNCHANGED <<io, header, l2_cache, opn, reader, call, saved>>

\* One iteration of the loop of guest_read in a thread.  What an iteration
\* shares with the other threads is the backing source, the header and the
\* L1 table, which it only reads, and the L2 cache.
ThreadReadBlock(t) ==
    /\ threads[t].state = "loop"
    /\ LET n == guest_read_block(io, header.c, reader.l1, l2_cache, threads[t])
       IN  threads' = [threads EXCEPT ![t] = n.call] /\ l2_cache' = n.cache
    /\ UNCHANGED <<io, header, opn, reader, call, saved>>

NextOpen == ReadCommon \/ ReadV3 \/ ReadExtension \/ ValidateV3
NextRead == Reader \/ ReadAt \/ ReadBlock \/ Remember
NextThreads ==
    \/ Reader
    \/ \E t \in Threads : ThreadReadAt(t) \/ ThreadReadBlock(t)
Next == NextOpen \/ NextRead \/ NextThreads

SpecOpen == InitOpen /\ [][NextOpen]_vars
SpecRead == InitRead /\ [][NextRead]_vars
SpecThreads == InitRead /\ [][NextThreads]_vars
Spec == Init /\ [][Next]_vars

-----------------------------------------------------------------------------
(* Vocabulary of the properties.                                           *)

Finished == call.state = "done"
Succeeded == call.state = "done" /\ call.result.ok

\* The first n bytes of a buffer.
Prefix(buf, n) == [i \in 1..n |-> buf[i]]

\* The guest blocks the range of a call covers after its truncation.
BlocksOf(k) ==
    LET cs == cluster_size(header.c)
    IN  IF k.ret = 0 THEN {}
        ELSE {b * cs : b \in (k.pos \div cs)..((k.pos + k.ret - 1) \div cs)}

\* The guest block that holds byte i of the buffer of a call.
BlockOfByte(k, i) ==
    LET g == k.pos + i - 1 IN g - (g % cluster_size(header.c))

\* The format's reading of the entries of the image: the offset field of an
\* L1 or L2 entry is its bits 9-55.
OffsetField(word) == word \cap BitRange(9, 55)
FormatL1Word(block) ==
    LET idx == guest_offset_info(header.c, block)[1]
    IN  IF idx + 1 > Len(reader.l1) THEN {} ELSE reader.l1[idx + 1]
FormatL2Word(block) ==
    WordAt(io, BitsValue(OffsetField(FormatL1Word(block)))
               + 8 * guest_offset_info(header.c, block)[2])
L1Unallocated(block) == OffsetField(FormatL1Word(block)) = {}
\* Unallocated, or Standard with the zero flag.
ReadsAsZero(block) ==
    \/ L1Unallocated(block)
    \/ OffsetField(FormatL2Word(block)) = {}
    \/ 62 \notin FormatL2Word(block) /\ 0 \in FormatL2Word(block)

DataReads(reads) == {j \in 1..Len(reads) : reads[j].op = "data"}

-----------------------------------------------------------------------------
(* C1: a read_at that meets no error returns min(n, guest_size - p) and    *)
(* leaves the buffer beyond that count as it was, for p < guest_size; for  *)
(* p >= guest_size it returns 0, leaves the buffer as it was and makes no  *)
(* translation and no read of the backing source.                          *)
C1_CountAndTail ==
    Succeeded =>
        IF call.pos < guest_size(header.c)
        THEN /\ call.result.count = Min(call.len, guest_size(header.c) - call.pos)
             /\ \A i \in 1..call.len : i > call.result.count => call.buf[i] = StaleByte
        ELSE /\ call.result.count = 0
             /\ \A i \in 1..call.len : call.buf[i] = StaleByte
             /\ call.log = << >>

\* A read cut short by the end of the guest, with bytes filled and bytes
\* left alone.
C1_Witness ==
    /\ Succeeded
    /\ call.pos < guest_size(header.c)
    /\ 0 < call.result.count /\ call.result.count < call.len
    /\ call.buf[1] # StaleByte

(* C2: every byte read_at returns from a cluster that is unallocated (the  *)
(* offset of its L1 entry or of its L2 entry is zero) or Standard with the *)
(* zero flag is 0; for such a cluster read_at makes no data read, and no   *)
(* L2 read either when the L1 entry is empty.                              *)
C2_ZeroClusters ==
    Finished =>
        /\ call.result.ok =>
              \A i \in 1..call.result.count :
                  ReadsAsZero(BlockOfByte(call, i)) => call.buf[i] = 0
        /\ \A j \in 1..Len(call.log) :
              /\ ReadsAsZero(call.log[j].block) => DataReads(call.log[j].reads) = {}
              /\ L1Unallocated(call.log[j].block) => call.log[j].reads = << >>

(* C3: for every split n = n1 + n2, when the three calls succeed, the      *)
(* bytes of read_at(p, n) are the bytes of read_at(p, n1) followed by the  *)
(* bytes of read_at(p + n1, n2), and the counts add up.                    *)
IsSplit ==
    /\ saved.whole # NoCall /\ saved.part # NoCall /\ Finished
    /\ call.pos = saved.whole.pos + saved.part.len
    /\ call.len = saved.whole.len - saved.part.len
    /\ saved.whole.result.ok /\ saved.part.result.ok /\ call.result.ok

C3_SplitConcat ==
    IsSplit =>
        /\ saved.whole.result.count = saved.part.result.count + call.result.count
        /\ Prefix(saved.whole.buf, saved.whole.result.count) =
               Prefix(saved.part.buf, saved.part.result.count)
                   \o Prefix(call.buf, call.result.count)

\* A split inside the guest whose second part starts in another, allocated
\* cluster.
C3_Witness ==
    /\ IsSplit
    /\ saved.part.result.count > 0 /\ call.result.count > 0
    /\ BlockOfByte(call, 1) # BlockOfByte(saved.whole, 1)
    /\ call.buf[1] \notin {0, StaleByte}

(* C4: two read_at calls with the same offset and buffer length return the *)
(* same count and bytes, or the same error, whatever calls were made in    *)
(* between.                                                                *)
SameCall(k) == k # NoCall /\ Finished /\ call.pos = k.pos /\ call.len = k.len
SameOutcome(k) ==
    /\ call.result = k.result
    /\ call.result.ok => Prefix(call.buf, call.result.count)
                             = Prefix(k.buf, k.result.count)

C4_Repeatable ==
    /\ SameCall(saved.whole) => SameOutcome(saved.whole)
    /\ SameCall(saved.part) => SameOutcome(saved.part)

\* The call kept first is made again after a call for another cluster
\* that went through the L2 table.
C4_Witness ==
    /\ SameCall(saved.whole) /\ saved.part # NoCall
    /\ call.result.ok /\ call.result.count > 0
    /\ call.log # << >> /\ call.log[1].reads # << >>

(* C5: a read_at whose range, cut at guest_size, touches a cluster whose   *)
(* L2 entry has the compressed bit fails with an I/O error that wraps      *)
(* UnsupportedFeature("compressed blocks"); it returns no count and reads  *)
(* no data for that cluster.  The L2 entry of a cluster is the word the    *)
(* translation of the cluster reads.                                       *)
CompressedError == IoOther(Err("UnsupportedFeature", "compressed blocks"))

TranslatedWord(block) ==
    LET info == guest_offset_info(header.c, block)
        e1 == l1_entry_read(reader.l1, info[1])
        raw == l2_entry_read_raw(io, l2_cache, e1.entry.pos, info[2])
    IN  IF e1.err # NoError \/ e1.entry.tag = "Empty" \/ raw.err # NoError
        THEN {}
        ELSE raw.word
CompressedBlocks(k) == {b \in BlocksOf(k) : 62 \in TranslatedWord(b)}
LoggedBlocks(k) == {k.log[j].block : j \in 1..Len(k.log)}
NoDataReadFor(k, blocks) ==
    \A j \in 1..Len(k.log) :
        k.log[j].block \in blocks => DataReads(k.log[j].reads) = {}

\* The claim as stated.
C5_CompressedFails ==
    Finished /\ CompressedBlocks(call) # {} =>
        /\ ~call.result.ok /\ call.result.err = CompressedError
        /\ NoDataReadFor(call, CompressedBlocks(call))

\* As amended: the error is that of the compressed cluster when the loop
\* reaches it, and that of the earlier cluster at which the loop stopped
\* otherwise.
C5_CompressedFailsFirst ==
    Finished /\ CompressedBlocks(call) # {} =>
        LET first == CHOOSE b \in CompressedBlocks(call) :
                         \A d \in CompressedBlocks(call) : b <= d
        IN  /\ ~call.result.ok
            /\ NoDataReadFor(call, CompressedBlocks(call))
            /\ IF first \in LoggedBlocks(call)
               THEN call.result.err = CompressedError /\ call.guest_block_pos = first
               ELSE call.guest_block_pos < first /\ call.result.err # CompressedError

\* The loop reads a first cluster and stops at the compressed second one.
C5_Witness ==
    /\ Finished /\ Len(call.log) = 2
    /\ call.log[2].block \in CompressedBlocks(call)
    /\ DataReads(call.log[1].reads) # {}
    /\ call.result.err = CompressedError

-----------------------------------------------------------------------------
(* Properties of open.                                                     *)
Done == opn.pc = "done"
Accepted == Done /\ opn.result = Ok
\* The common header has been read and validated.
CommonRead == opn.pc # "read_common" /\ io.len >= COMMON_LENGTH
\* The loop over the extension records has ended at a terminator: open has
\* reached, or passed, the validation of the version-3 fields.
ExtensionsRead == EXT_CODE_NONE \in opn.seen
UnknownIncompatible == {b \in io.incompatible : b >= Len(INCOMPATIBLE_NAMES)}

(* C6: open fails with FileFormat("bad cluster_bits N") for every header   *)
(* whose cluster_bits N is outside 9..22 and that passes the magic,        *)
(* version and backing-file checks; for every accepted header              *)
(* cluster_size() = 2^cluster_bits is a power of two in [512, 4 MiB]; and  *)
(* 1 << cluster_bits is never evaluated with a cluster_bits outside 9..22. *)
C6_ClusterBits ==
    /\ Accepted =>
          /\ header.c.cluster_bits = io.cluster_bits
          /\ io.cluster_bits \in 9..22
          /\ \E n \in 9..22 : cluster_size(header.c) = Pow2(n)
          /\ 512 <= cluster_size(header.c)
          /\ cluster_size(header.c) <= 4 * 1024 * 1024
    /\ opn.shifts \subseteq 9..22
    /\ ( /\ CommonRead
         /\ io.magic = MAGIC /\ io.version = SUPPORTED_VERSION
         /\ io.backing_file_offset = 0
         /\ io.cluster_bits \notin 9..22 )
       => opn.result = Err("FileFormat",
                           "bad cluster_bits " \o ToString(io.cluster_bits))

\* A header with cluster_bits = 23 has been rejected, no shift evaluated.
C6_Witness ==
    /\ Done /\ io.cluster_bits = 23 /\ opn.shifts = {}
    /\ opn.result = Err("FileFormat", "bad cluster_bits 23")

(* C7: for a source whose 72-byte common header can be read, a magic other *)
(* than 0x514649fb makes open fail with FileType whatever the other fields *)
(* hold, and a matching magic with a version v other than 3 makes open     *)
(* fail with Version(v) whatever the remaining fields hold.                *)
C7_MagicThenVersion ==
    CommonRead =>
        /\ io.magic # MAGIC => opn.result = Err("FileType", "")
        /\ io.magic = MAGIC /\ io.version # SUPPORTED_VERSION
             => opn.result = Err("Version", ToString(io.version))

\* Both the magic and the version are wrong, and open has said FileType.
C7_Witness ==
    /\ Done /\ io.magic # MAGIC /\ io.version # SUPPORTED_VERSION
    /\ opn.result = Err("FileType", "")

(* C8: open accepts a header only if l1_size equals                        *)
(* ceil(size / (cluster_size * (cluster_size / 8))), and a header that     *)
(* reaches that check with any other l1_size fails with                    *)
(* FileFormat("bad L1 entry count").                                       *)
L1Needed == CeilDiv(io.size, Pow2(io.cluster_bits) * (Pow2(io.cluster_bits) \div 8))
ReachesL1Check ==
    /\ CommonRead
    /\ io.magic = MAGIC /\ io.version = SUPPORTED_VERSION
    /\ io.backing_file_offset = 0 /\ io.cluster_bits \in 9..22
    /\ io.crypt_method = 0
C8_L1Size ==
    /\ Accepted => io.l1_size = L1Needed
    /\ ReachesL1Check =>
          (io.l1_size # L1Needed
             <=> opn.result = Err("FileFormat", "bad L1 entry count"))

(* C9: for every accepted header the incompatible bitmask has the corrupt  *)
(* bit (bit 1) clear and no bit at a position >= 2 set; a set corrupt bit  *)
(* makes open fail with UnsupportedFeature("corrupt bit"); a set bit at a  *)
(* position >= 2 makes open fail with UnsupportedFeature carrying the      *)
(* rendering of the unknown bits, named by the feature-name table or not;  *)
(* unknown compatible and autoclear bits never make open fail.             *)
NoUnknownIncompatible ==
    Accepted => header.v3.incompatible = io.incompatible /\ io.incompatible \subseteq {0}
UnknownRendering ==
    FeatureDebug(UnknownIncompatible, 0, INCOMPATIBLE_NAMES,
                 header.v3.feature_name_table)
OtherFeaturesIgnored ==
    Done => opn.result = open([io EXCEPT !.compatible = {}, !.autoclear = {}]).o.result

\* The claim as stated, for the headers whose extensions have been read.
C9_IncompatibleEach ==
    /\ NoUnknownIncompatible
    /\ Done /\ ExtensionsRead /\ 1 \in io.incompatible
         => opn.result = Err("UnsupportedFeature", "corrupt bit")
    /\ Done /\ ExtensionsRead /\ UnknownIncompatible # {}
         => opn.result = Err("UnsupportedFeature", UnknownRendering)
    /\ OtherFeaturesIgnored

\* As amended: the unknown bits are reported when the corrupt bit is clear.
C9_IncompatibleInOrder ==
    /\ NoUnknownIncompatible
    /\ Done /\ ExtensionsRead /\ 1 \in io.incompatible
         => opn.result = Err("UnsupportedFeature", "corrupt bit")
    /\ Done /\ ExtensionsRead /\ 1 \notin io.incompatible /\ UnknownIncompatible # {}
         => opn.result = Err("UnsupportedFeature", UnknownRendering)
    /\ OtherFeaturesIgnored

\* Bit 2 is set and the table of the file names it: open has failed with
\* that name.
C9_Witness ==
    /\ Done /\ io.incompatible = {2}
    /\ Len(header.v3.feature_name_table) = 1
    /\ opn.result = Err("UnsupportedFeature", "future")

(* C10: for every accepted file header_length equals the cursor position   *)
(* at which the first extension record is read; a declared header_length   *)
(* smaller than 104 makes open fail with                                   *)
(* FileFormat("header is X bytes, file claims Y"); a larger one is skipped *)
(* over as padding before the extensions are parsed.                       *)
FirstRecordAtHeaderLength ==
    Accepted => opn.records # << >> /\ opn.records[1] = io.header_length
PaddingSkipped ==
    opn.records # << >> /\ io.header_length > HEADER_LENGTH_V3
        => opn.records[1] = io.header_length
HeaderLengthError ==
    Err("FileFormat", "header is " \o ToString(HEADER_LENGTH_V3)
                      \o " bytes, file claims " \o ToString(io.header_length))

\* The claim as stated, for the headers whose extensions have been read.
C10_HeaderLengthAlways ==
    /\ FirstRecordAtHeaderLength
    /\ PaddingSkipped
    /\ Done /\ ExtensionsRead /\ io.header_length < HEADER_LENGTH_V3
         => opn.result = HeaderLengthError

\* As amended: the error is that of header_length when the checks of the
\* incompatible bits and of refcount_order pass.
C10_HeaderLengthInOrder ==
    /\ FirstRecordAtHeaderLength
    /\ PaddingSkipped
    /\ ( /\ Done /\ ExtensionsRead /\ io.header_length < HEADER_LENGTH_V3
         /\ io.incompatible \subseteq {0} /\ io.refcount_order <= 6 )
       => opn.result = HeaderLengthError

\* A header declaring 112 bytes has been accepted, its first extension
\* record read at 112.
C10_Witness ==
    /\ Accepted /\ io.header_length = 112 /\ opn.records[1] = 112

(* C11: while the extension records are read in sequence, a record whose   *)
(* non-zero code equals the code of an earlier record makes open fail with *)
(* FileFormat("duplicate header extension 0x<code>") before the payload of *)
(* that record is read; so no accepted header has an extension code twice, *)
(* and a record of code 0 ends the sequence and is never stored as an      *)
(* extension.                                                              *)
RecordsRead == Len(opn.records)
CodeRead(i) == RecordAt(io, i).code
Repeats(i) == \E j \in 1..(i - 1) : CodeRead(j) = CodeRead(i)
PayloadStart(i) == opn.records[i] + 8
StoredCodes ==
    [i \in 1..Len(header.v3.unknown_extensions) |-> header.v3.unknown_extensions[i].code]
RECURSIVE UnknownCodesRead(_)
UnknownCodesRead(i) ==
    IF i = 0 THEN << >>
    ELSE IF CodeRead(i) \in {EXT_CODE_NONE, EXT_CODE_FEATURE_NAME_TABLE}
    THEN UnknownCodesRead(i - 1)
    ELSE Append(UnknownCodesRead(i - 1), CodeRead(i))
C11_NoDuplicates ==
    /\ \A i \in 1..RecordsRead :
          /\ i < RecordsRead => CodeRead(i) # EXT_CODE_NONE
          /\ Repeats(i) =>
                /\ i = RecordsRead
                /\ opn.result = Err("FileFormat",
                                    "duplicate header extension " \o AltHex(CodeRead(i)))
                /\ opn.position < PayloadStart(i)
                /\ \A k \in 1..Len(opn.payloads) : opn.payloads[k].at < opn.records[i]
    /\ Accepted =>
          /\ \A i, j \in 1..RecordsRead : CodeRead(i) = CodeRead(j) => i = j
          /\ CodeRead(RecordsRead) = EXT_CODE_NONE
          /\ StoredCodes = UnknownCodesRead(RecordsRead)
          /\ \A i \in 1..Len(StoredCodes) : StoredCodes[i] # EXT_CODE_NONE

\* The second record repeats the code of the first and claims a payload
\* longer than the cluster: open has failed for the repeated code.
C11_Witness ==
    /\ Done /\ RecordsRead = 2 /\ Repeats(2)
    /\ RecordAt(io, 2).len > cluster_size(header.c)
    /\ opn.result = Err("FileFormat", "duplicate header extension 0x7")

(* C12: for every accepted file the header region (fixed fields, version-3 *)
(* fields, every extension record with its padding, the terminator) ends   *)
(* at a file offset <= cluster_size; an extension whose payload would end  *)
(* past cluster_size (position after its length field + length >           *)
(* cluster_size) makes open fail with                                      *)
(* FileFormat("complete header too big for first cluster") before any byte *)
(* of that payload is read.                                                *)
FirstCluster == Pow2(io.cluster_bits)
HeaderInFirstCluster ==
    Accepted =>
        /\ opn.position <= FirstCluster
        /\ \A k \in 1..Len(opn.payloads) :
              opn.payloads[k].at + opn.payloads[k].len <= FirstCluster
\* The length of the i-th record has been read and its payload would end
\* past the first cluster.
EndsPastCluster(i) ==
    /\ CodeRead(i) # EXT_CODE_NONE
    /\ PayloadStart(i) <= io.len
    /\ PayloadStart(i) + RecordAt(io, i).len > FirstCluster
RejectedUnread(i) ==
    /\ i = RecordsRead
    /\ opn.result = Err("FileFormat", "complete header too big for first cluster")
    /\ \A k \in 1..Len(opn.payloads) : opn.payloads[k].at < opn.records[i]

Alone(k) == guest_read(io, header.c, reader.l1, << >>, k.pos, k.len)
AsAlone(k) ==
    /\ k.result = Alone(k).result
    /\ k.buf = Alone(k).buf
C13_Interleaved ==
    /\ \A t \in Threads : threads[t].state = "done" => AsAlone(threads[t])
    /\ header = open(io).h
    /\ reader.state = "ready"
         => reader.l1 = l1_read(io, header.c, header.c.l1_table_offset).l1

\* One thread has finished a read across two clusters while another is
\* inside a read of the second cluster.
C13_Witness ==
    \E t, u \in Threads :
        /\ t # u
        /\ threads[t].state = "done" /\ threads[t].result.ok
        /\ Len(threads[t].log) = 2
        /\ threads[u].state = "loop" /\ threads[u].pos = cluster_size(header.c)

(* C14: translating a guest offset through an L1 entry that has any of     *)
(* bits 0-8 or 56-62 set fails with                                        *)
(* FileFormat("reserved bit used in L1 entry"); otherwise the entry        *)
(* decodes to Empty when bits 9-55 are all zero and to Standard{pos, cow}  *)
(* with pos the value of bits 9-55 in place and cow bit 63.  An entry      *)
(* whose only set bit is bit 8 is rejected.                                *)
FormatL1Entry(word) ==
    IF word \cap (BitRange(0, 8) \cup BitRange(56, 62)) # {}
    THEN [err |-> Err("FileFormat", "reserved bit used in L1 entry"),
          entry |-> L1Empty]
    ELSE IF OffsetField(word) = {}
    THEN [err |-> NoError, entry |-> L1Empty]
    ELSE [err |-> NoError, entry |-> L1Standard(OffsetField(word), 63 \in word)]
\* What a translation through the L1 entry of a block does, as the log of
\* the call shows it.
TranslatedThroughL1(k, j) ==
    LET info == guest_offset_info(header.c, k.log[j].block)
        fmt == FormatL1Entry(reader.l1[info[1] + 1])
    IN  info[1] < Len(reader.l1) =>
          IF fmt.err # NoError
          THEN /\ k.log[j].reads = << >>
               /\ k.state = "done" /\ j = Len(k.log)
               /\ k.result.err = IoOther(fmt.err)
          ELSE IF fmt.entry.tag = "Empty"
          THEN k.log[j].reads = << >>
          ELSE /\ k.log[j].reads # << >>
               /\ k.log[j].reads[1] = [op |-> "l2", table |-> fmt.entry.pos,
                                        idx |-> info[2]]
C14_L1Decoding ==
    /\ reader.state = "ready" =>
          \A i \in 1..Len(reader.l1) :
              l1_entry_read(reader.l1, i - 1) = FormatL1Entry(reader.l1[i])
    /\ call # NoCall => \A j \in 1..Len(call.log) : TranslatedThroughL1(call, j)

(* C15: decoding an L2 entry with bit 62 clear fails with                  *)
(* FileFormat("reserved bit used in L2 entry") if any of bits 1-8 or 56-61 *)
(* is set; otherwise it yields Empty when bits 9-55 are all zero, the zero *)
(* flag set or not, and Standard{pos, cow, zero} with pos the value of     *)
(* bits 9-55 in place, cow bit 63 and zero bit 0.  An entry whose only set *)
(* bit is bit 8 is rejected.                                               *)
FormatL2Entry(word) ==
    IF word \cap (BitRange(1, 8) \cup BitRange(56, 61)) # {}
    THEN [err |-> Err("FileFormat", "reserved bit used in L2 entry"),
          entry |-> L2Empty]
    ELSE IF OffsetField(word) = {}
    THEN [err |-> NoError, entry |-> L2Empty]
    ELSE [err |-> NoError,
          entry |-> L2Standard(OffsetField(word), 63 \in word, 0 \in word)]
\* The iterations of a call that read, from inside the backing source, an
\* L2 word without the compressed bit.
PlainL2Reads(k) ==
    {j \in 1..Len(k.log) :
        /\ k.log[j].reads # << >> /\ k.log[j].reads[1].op = "l2"
        /\ ~Huge(k.log[j].reads[1].table)
        /\ BitsValue(k.log[j].reads[1].table) + 8 * k.log[j].reads[1].idx + 8 <= io.len
        /\ 62 \notin WordAt(io, BitsValue(k.log[j].reads[1].table)
                                  + 8 * k.log[j].reads[1].idx)}
\* What the iteration does with the word, as the log of the call and its
\* buffer show it.
DecodedFromL2(k, j) ==
    LET l2 == k.log[j].reads[1]
        fmt == FormatL2Entry(WordAt(io, BitsValue(l2.table) + 8 * l2.idx))
        data == DataReads(k.log[j].reads)
    IN  /\ l2_entry_parse(header.c, WordAt(io, BitsValue(l2.table) + 8 * l2.idx)) = fmt
        /\ IF fmt.err # NoError
           THEN /\ data = {} /\ k.state = "done" /\ j = Len(k.log)
                /\ k.result.err = IoOther(fmt.err)
           ELSE IF fmt.entry.tag = "Empty" \/ fmt.entry.zero
           THEN data = {}
           ELSE \E d \in data : k.log[j].reads[d].pos = fmt.entry.pos
C15_L2Decoding ==
    call # NoCall => \A j \in PlainL2Reads(call) : DecodedFromL2(call, j)

(* C16: L2 tables are acquired through an LRU cache keyed by the offset of *)
(* the table and bounded to 32 tables: once a translation through the      *)
(* table at offset k has succeeded, a later translation through the same   *)
(* table, made while k is among the 32 most recently used, issues no read  *)
(* of the backing source for the table, and a miss inserts the table into  *)
(* the cache.                                                              *)
L2Reads(reads) == {r \in 1..Len(reads) : reads[r].op = "l2"}
\* The L2 table the translation of a block goes through, as the L1 table
\* of the reader gives it; {} when it goes through none.
TableOf(block) ==
    LET e1 == l1_entry_read(reader.l1, guest_offset_info(header.c, block)[1])
    IN  IF e1.err # NoError \/ e1.entry.tag = "Empty" THEN {} ELSE e1.entry.pos
\* The iterations of a call whose translation read its L2 table from the
\* backing source and got the word.
MissedAndRead(k) ==
    {i \in 1..Len(k.log) :
        /\ L2Reads(k.log[i].reads) # {}
        /\ ~Huge(k.log[i].reads[1].table)
        /\ BitsValue(k.log[i].reads[1].table) + 8 * k.log[i].reads[1].idx + 8 <= io.len}
C16_CachedTables ==
    call # NoCall =>
        /\ \A i \in MissedAndRead(call) :
               BitsValue(call.log[i].reads[1].table) \in CacheKeys(l2_cache)
        /\ \A i \in MissedAndRead(call) : \A j \in (i + 1)..Len(call.log) :
               TableOf(call.log[j].block) = call.log[i].reads[1].table
                   => L2Reads(call.log[j].reads) = {}

(* C17: when, in a read_at that spans several clusters, the translation or *)
(* the backing read of a cluster fails (reserved bit, compressed entry,    *)
(* I/O failure), read_at returns that error at once: no byte count, no     *)
(* translation and no backing read for a later cluster, no second attempt  *)
(* at the cluster, and nothing written to the part of the buffer that      *)
(* belongs to later clusters.                                              *)
\* The iteration meets an error: in the translation of its block, in a
\* compressed entry, or in a data read that reaches past the end of the
\* backing source.
IterationFails(k, j) ==
    LET t == l2_entry_read(io, header.c, reader.l1, l2_cache, k.log[j].block)
    IN  \/ t.err # NoError
        \/ t.entry.tag = "Compressed"
        \/ \E d \in DataReads(k.log[j].reads) :
               \/ Huge(k.log[j].reads[d].pos)
               \/ k.log[j].reads[d].at + k.log[j].reads[d].len > io.len
\* The last byte of the buffer that belongs to the cluster of iteration j.
ChunkEnd(k, j) == Min(k.ret, k.log[j].block + cluster_size(header.c) - k.pos)

C17_FailsAtOnce ==
    call # NoCall =>
        \A j \in 1..Len(call.log) :
            IterationFails(call, j) =>
                /\ call.state = "done"
                /\ ~call.result.ok /\ call.result.count = 0
                /\ call.result.err.kind = "io::ErrorKind::Other"
                /\ j = Len(call.log)
                /\ \A i \in 1..(j - 1) : call.log[i].block # call.log[j].block
                /\ \A i \in 1..call.len :
                       i > ChunkEnd(call, j) => call.buf[i] = StaleByte

\* The second cluster of a call that spans three fails after the first
\* one was read.
C17_Witness ==
    /\ Finished /\ ~call.result.ok
    /\ Len(call.log) = 2 /\ IterationFails(call, 2)
    /\ call.buf[1] # StaleByte
    /\ ChunkEnd(call, 2) < call.ret

(* C18: div_ceil(a, b) is the ceiling of a / b for every unsigned a and    *)
(* every b > 0: a / b when b divides a (0 for a = 0) and a / b + 1         *)
(* otherwise.  It is checked on the two divisions open makes for the       *)
(* header it has read: the guest size by the cluster size, and the number  *)
(* of clusters by the number of entries of an L2 table.                    *)
CeilingOf(a, b) == IF a % b = 0 THEN a \div b ELSE a \div b + 1
C18_DivCeil ==
    ReachesL1Check =>
        LET cs == cluster_size(header.c)
            blocks == CeilingOf(header.c.size, cs)
        IN  /\ div_ceil(header.c.size, cs) = CeilingOf(header.c.size, cs)
            /\ div_ceil(blocks, l2_entries(header.c))
                   = CeilingOf(blocks, l2_entries(header.c))
            /\ div_ceil(0, cs) = 0

(* C19: decoding an L2 entry with the compressed bit set, for every        *)
(* cluster_bits in 9..22, clears bits 63 and 62 and yields                 *)
(* Compressed{pos, cow, size} with pos the low x bits of the entry, size   *)
(* (entry >> x) * 512 and cow bit 63, without any reserved-bit check.  The *)
(* spec gives x = 62 - cluster_bits; the code has x = 70 - cluster_bits.   *)
\* The compressed words the translations of a call have read.
CompressedWordsRead(k) ==
    {WordAt(io, BitsValue(k.log[j].reads[1].table) + 8 * k.log[j].reads[1].idx) :
        j \in {i \in 1..Len(k.log) :
                  /\ L2Reads(k.log[i].reads) # {}
                  /\ ~Huge(k.log[i].reads[1].table)
                  /\ BitsValue(k.log[i].reads[1].table)
                         + 8 * k.log[i].reads[1].idx + 8 <= io.len
                  /\ 62 \in WordAt(io, BitsValue(k.log[i].reads[1].table)
                                          + 8 * k.log[i].reads[1].idx)}}
\* Compressed{pos, cow, size} of a word split at bit x: the offset is the
\* bits below x, the size the bits from x to 61 moved down by x and up by
\* 9 (times 512).
SplitAt(word, x) ==
    [err |-> NoError,
     entry |-> L2Compressed({b \in word : b < x},
                            63 \in word,
                            {b - x + 9 : b \in {a \in word : a >= x /\ a <= 61}})]
DecodesSplitAt(k, shift) ==
    \A word \in CompressedWordsRead(k) : \A bits \in 9..22 :
        l2_entry_parse([header.c EXCEPT !.cluster_bits = bits], word)
            = SplitAt(word, shift - bits)

\* The statement of the spec: x = 62 - cluster_bits.
C19_CompressedDecoding == call # NoCall => DecodesSplitAt(call, 62)

\* Amended: x = 70 - cluster_bits.
C19_CompressedDecodingWide == call # NoCall => DecodesSplitAt(call, 70)

\* A call has read a compressed word with a reserved bit of a plain entry
\* and with bits on both sides of bit 70 - cluster_bits, one of them above
\* bit 62 - cluster_bits.
C19_Witness ==
    /\ Finished /\ ~call.result.ok
    /\ \E word \in CompressedWordsRead(call) :
           /\ word \cap BitRange(1, 8) # {}
           /\ word \cap BitRange(62 - header.c.cluster_bits,
                                 69 - header.c.cluster_bits) # {}
           /\ word \cap BitRange(70 - header.c.cluster_bits, 61) # {}

(* C20: for every accepted header and every guest offset p < guest_size,   *)
(* the L1 index the translator computes, (p div cluster_size) div          *)
(* (cluster_size / 8), is below l1_size and the L2 index is below          *)
(* cluster_size / 8; every L1 lookup of read_at falls inside the table of  *)
(* l1_size * 8 bytes that reader() loaded, and a read in range never fails *)
(* on an L1 index out of range.                                            *)
\* Guest offsets below guest_size: the first and the last, the ends of
\* the first cluster, and the blocks the call has translated.
OffsetsInRange ==
    {p \in {0, cluster_size(header.c) - 1, cluster_size(header.c),
            guest_size(header.c) - 1} \cup LoggedBlocks(call) :
        p >= 0 /\ p < guest_size(header.c)}
\* The call read the L1 entry of its last block in the reader's table.
L1LookupInside(k) ==
    l1_entry_read(reader.l1,
                  guest_offset_info(header.c, k.log[Len(k.log)].block)[1]).err
        # IoError
C20_IndexInRange ==
    call # NoCall /\ call.log # << >> =>
        /\ Len(reader.l1) = header.c.l1_size
        /\ \A p \in OffsetsInRange :
               /\ guest_offset_info(header.c, p)[1] < header.c.l1_size
               /\ guest_offset_info(header.c, p)[1] < Len(reader.l1)
               /\ guest_offset_info(header.c, p)[2] < l2_entries(header.c)
        /\ L1LookupInside(call)

(* C21: in every iteration of the loop of read_at the guest offset handed  *)
(* to the translator is a multiple of cluster_size, and the chunk length n *)
(* has 1 <= n and offset + n <= cluster_size, offset being p mod           *)
(* cluster_size in the first iteration and 0 afterwards; so each data read *)
(* of the backing source covers [pos + offset, pos + offset + n), inside   *)
(* the one physical cluster [pos, pos + cluster_size) the L2 entry names,  *)
(* and the loop ends after exactly                                         *)
(* ceil((p mod cluster_size + count) / cluster_size) iterations.           *)
\* Iteration j of a call: its block, its offset, its chunk and its data
\* read.
ChunkInCluster(k, j) ==
    LET cs == cluster_size(header.c)
        e == k.log[j]
    IN  /\ e.block % cs = 0
        /\ e.offset = IF j = 1 THEN k.pos % cs ELSE 0
        /\ e.chunk = << >> => DataReads(e.reads) = {}
        /\ e.chunk # << >> =>
              /\ 1 <= e.chunk[1] /\ e.offset + e.chunk[1] <= cs
              /\ Cardinality(DataReads(e.reads)) <= 1
              /\ \A d \in DataReads(e.reads) :
                     /\ e.reads[d].len = e.chunk[1]
                     /\ ~Huge(e.reads[d].pos) =>
                            /\ e.reads[d].at = BitsValue(e.reads[d].pos) + e.offset
                            /\ e.reads[d].at >= BitsValue(e.reads[d].pos)
                            /\ e.reads[d].at + e.reads[d].len
                                   <= BitsValue(e.reads[d].pos) + cs
ChunksInClusters(k) == \A j \in 1..Len(k.log) : ChunkInCluster(k, j)
IterationsNeeded(k) ==
    CeilingOf((k.pos % cluster_size(header.c)) + k.result.count,
              cluster_size(header.c))

\* The statement of the spec: the number of iterations for every count.
C21_ChunksAndIterations ==
    call # NoCall =>
        /\ ChunksInClusters(call)
        /\ Succeeded => Len(call.log) = IterationsNeeded(call)

\* Amended: the number of iterations for a count of at least 1; a call
\* that returns 0 makes no iteration.
C21_ChunksAndIterationsNonEmpty ==
    call # NoCall =>
        /\ ChunksInClusters(call)
        /\ Succeeded /\ call.result.count >= 1
               => Len(call.log) = IterationsNeeded(call)
        /\ Succeeded /\ call.result.count = 0 => Len(call.log) = 0

\* A call that starts inside a cluster has read data in three clusters.
C21_Witness ==
    /\ Succeeded /\ Len(call.log) = 3
    /\ call.log[1].offset > 0
    /\ \A j \in 1..2 : DataReads(call.log[j].reads) # {}

=============================================================================
